---- MODULE Spec2Model ----
(***************************************************************************)
(* Model of quickserving-core's server.rs: the listener loop `listen` and  *)
(* the per-connection handler `handle_connection`.                         *)
(*                                                                         *)
(* Text (Rust String / &[u8]) is a sequence of one-character strings, so   *)
(* that ends_with, trim_end_matches, format!, len and to_string are        *)
(* computed the way the code computes them.                                *)
(***************************************************************************)
EXTENDS Naturals, Sequences, FiniteSets, TLC

\* ------------------------------------------------------------------ bounds
\* connections the listener accepts in a run
MaxConns == 2
\* non-terminating chunks a peer sends on one connection
MaxReads == 2

\* ------------------------------------------------------- program constants
\* request_buf = [0u8; 4096]
BufSize == 4096
StatusOk == 200
StatusNotFound == 404

\* --------------------------------------------------------- text literals
CRLF == <<"\r", "\n">>
CRLFCRLF == <<"\r", "\n", "\r", "\n">>
Slash == <<"/">>
Space == <<" ">>
ColonSpace == <<":", " ">>
\* the byte 0xFF (never valid UTF-8) and what from_utf8_lossy puts for it
BadByte == "0xFF"
ReplacementChar == "U+FFFD"

S_GET == <<"G", "E", "T">>
S_HTTP == <<"H", "T", "T", "P">>
S_1_1 == <<"1", ".", "1">>
S_HTTP_1_1 == S_HTTP \o Slash \o S_1_1
S_OK == <<"O", "K">>
S_ResourceNotFound ==
    <<"R", "e", "s", "o", "u", "r", "c", "e", " ", "n", "o", "t", " ", "f", "o", "u", "n", "d">>
S_ContentType == <<"C", "o", "n", "t", "e", "n", "t", "-", "T", "y", "p", "e">>
S_ContentLenght ==
    <<"C", "o", "n", "t", "e", "n", "t", "-", "L", "e", "n", "g", "h", "t">>
S_ContentLength ==
    <<"C", "o", "n", "t", "e", "n", "t", "-", "L", "e", "n", "g", "t", "h">>
S_Server == <<"S", "e", "r", "v", "e", "r">>
S_Quickserving == <<"Q", "u", "i", "c", "k", "s", "e", "r", "v", "i", "n", "g">>
S_Date == <<"D", "a", "t", "e">>
S_text_html == <<"t", "e", "x", "t", "/", "h", "t", "m", "l">>
S_text_plain == <<"t", "e", "x", "t", "/", "p", "l", "a", "i", "n">>
S_octet_stream ==
    <<"a", "p", "p", "l", "i", "c", "a", "t", "i", "o", "n", "/",
      "o", "c", "t", "e", "t", "-", "s", "t", "r", "e", "a", "m">>
S_404 == <<"4", "0", "4">>
S_html == <<"h", "t", "m", "l">>
S_txt == <<"t", "x", "t">>

\* ------------------------------------------------------- string operators
\* str::ends_with
EndsWith(s, suffix) ==
    /\ Len(suffix) <= Len(s)
    /\ SubSeq(s, Len(s) - Len(suffix) + 1, Len(s)) = suffix

\* str::starts_with
StartsWith(s, prefix) ==
    /\ Len(prefix) <= Len(s)
    /\ SubSeq(s, 1, Len(prefix)) = prefix

\* str::trim_end_matches("/"): every trailing "/" is removed
RECURSIVE TrimEndMatches(_)
TrimEndMatches(s) ==
    IF EndsWith(s, Slash) THEN TrimEndMatches(SubSeq(s, 1, Len(s) - 1)) ELSE s

Digit(d) == <<"0", "1", "2", "3", "4", "5", "6", "7", "8", "9">>[d + 1]

\* usize::to_string / i32 Display: decimal digits, most significant first
RECURSIVE UsizeToString(_)
UsizeToString(n) ==
    IF n < 10 THEN <<Digit(n)>> ELSE UsizeToString(n \div 10) \o <<Digit(n % 10)>>

\* String::from_utf8_lossy: an invalid byte becomes U+FFFD, the rest is kept
Utf8Lossy(bytes) ==
    [i \in 1..Len(bytes) |-> IF bytes[i] = BadByte THEN ReplacementChar ELSE bytes[i]]

\* index of the first occurrence of sep in s at or after position i, 0 if none
RECURSIVE Find(_, _, _)
Find(s, sep, i) ==
    IF i + Len(sep) - 1 > Len(s) THEN 0
    ELSE IF s[i] = sep[1] /\ SubSeq(s, i, i + Len(sep) - 1) = sep THEN i
    ELSE Find(s, sep, i + 1)

\* str::split(sep): the pieces between the occurrences of sep
RECURSIVE Split(_, _)
Split(s, sep) ==
    LET k == Find(s, sep, 1)
    IN  IF k = 0 THEN <<s>>
        ELSE <<SubSeq(s, 1, k - 1)>> \o Split(SubSeq(s, k + Len(sep), Len(s)), sep)

RECURSIVE Join(_, _)
Join(pieces, sep) ==
    IF pieces = <<>> THEN <<>>
    ELSE IF Len(pieces) = 1 THEN pieces[1]
    ELSE pieces[1] \o sep \o Join(Tail(pieces), sep)

\* index of the last occurrence of the one-character string c in s, 0 if none
RECURSIVE RFind(_, _, _)
RFind(s, c, i) ==
    IF i = 0 THEN 0 ELSE IF s[i] = c THEN i ELSE RFind(s, c, i - 1)

\* --------------------------------------------------------- HTTP value types
\* Version::new(name, number)
VersionNew(name, number) == [name |-> name, number |-> number]

\* Version serializes as "<name>/<number>"
VersionToString(v) == v.name \o Slash \o v.number

\* Headers::new(): an empty ordered collection of (name, value) pairs
HeadersNew == <<>>

\* Headers::insert(name, value): insertion order is kept
HeadersInsert(headers, name, value) == Append(headers, <<name, value>>)

\* each header as "Name: value\r\n", in insertion order
RECURSIVE HeadersToString(_)
HeadersToString(headers) ==
    IF headers = <<>> THEN <<>>
    ELSE headers[1][1] \o ColonSpace \o headers[1][2] \o CRLF
         \o HeadersToString(Tail(headers))

\* Response::new(status, reason, version, headers, body)
ResponseNew(status, reason, version, headers, body) ==
    [status |-> status, reason |-> reason, version |-> version,
     headers |-> headers, body |-> body]

\* Response::to_string():
\* "<protocol>/<version> <status> <reason>\r\n" + headers + "\r\n" + body
ResponseToString(r) ==
    VersionToString(r.version) \o Space \o UsizeToString(r.status) \o Space
    \o r.reason \o CRLF \o HeadersToString(r.headers) \o CRLF \o r.body

\* ------------------------------------------------------------ request parser
ParseError == [ok |-> FALSE]

\* index of the first blank line among lines[i..], 0 if none
RECURSIVE FirstBlank(_, _)
FirstBlank(lines, i) ==
    IF i > Len(lines) THEN 0
    ELSE IF lines[i] = <<>> THEN i
    ELSE FirstBlank(lines, i + 1)

\* a header line is split on the first ": "; without one it is malformed
ParseHeader(line) ==
    LET k == Find(line, ColonSpace, 1)
    IN  IF k = 0 THEN ParseError
        ELSE [ok |-> TRUE,
              header |-> <<SubSeq(line, 1, k - 1), SubSeq(line, k + 2, Len(line))>>]

\* "<name>/<number>", both parts non-empty
ParseVersion(text) ==
    LET parts == Split(text, Slash)
    IN  IF Len(parts) # 2 \/ parts[1] = <<>> \/ parts[2] = <<>> THEN ParseError
        ELSE [ok |-> TRUE, version |-> VersionNew(parts[1], parts[2])]

\* Request::from_string(text)
RequestFromString(text) ==
    LET lines  == Split(text, CRLF)
        tokens == Split(lines[1], Space)
        blank  == FirstBlank(lines, 2)
        last   == IF blank = 0 THEN Len(lines) ELSE blank - 1
        hdrs   == [i \in 1..(last - 1) |-> ParseHeader(lines[i + 1])]
        body   == IF blank = 0 THEN <<>>
                  ELSE Join(SubSeq(lines, blank + 1, Len(lines)), CRLF)
    IN  IF Len(tokens) # 3 THEN ParseError
        ELSE IF ~ParseVersion(tokens[3]).ok THEN ParseError
        ELSE IF \E i \in 1..(last - 1) : ~hdrs[i].ok THEN ParseError
        ELSE [ok |-> TRUE,
              request |-> [method  |-> tokens[1],
                           path    |-> tokens[2],
                           version |-> ParseVersion(tokens[3]).version,
                           headers |-> [i \in 1..(last - 1) |-> hdrs[i].header],
                           body    |-> body]]

\* --------------------------------------------------------------- filesystem
\* The operating system's view of a path: its components, with empty ones
\* ("//") and "." dropped and ".." leaving the directory it follows.
RECURSIVE Components(_, _)
Components(pieces, acc) ==
    IF pieces = <<>> THEN acc
    ELSE IF pieces[1] = <<>> \/ pieces[1] = <<".">> THEN Components(Tail(pieces), acc)
    ELSE IF pieces[1] = <<".", ".">>
         THEN Components(Tail(pieces),
                         IF acc = <<>> THEN acc ELSE SubSeq(acc, 1, Len(acc) - 1))
    ELSE Components(Tail(pieces), Append(acc, pieces[1]))

\* fs::read_to_string(path): the file's text, or an error when there is no
\* such file or its bytes are not valid UTF-8. disk maps components to bytes.
FsReadToString(disk, path) ==
    LET key == Components(Split(path, Slash), <<>>)
    IN  IF key \in DOMAIN disk /\ \A i \in 1..Len(disk[key]) : disk[key][i] # BadByte
        THEN [ok |-> TRUE, content |-> disk[key]]
        ELSE [ok |-> FALSE]

\* the fallback body is lost: unwrap_or_default() in place of unwrap_or("404")
UnwrapOr404_Empty(read) == IF read.ok THEN read.content ELSE <<>>

\* fs::read_to_string(..).unwrap_or("404")
UnwrapOr404(read) == IF read.ok THEN read.content ELSE S_404

\* ------------------------------------------------------------------- mime
\* the extension of a path: what follows the last "." of its last component
Extension(path) ==
    LET s    == RFind(path, "/", Len(path))
        name == SubSeq(path, s + 1, Len(path))
        d    == RFind(name, ".", Len(name))
    IN  IF d <= 1 THEN <<>> ELSE SubSeq(name, d + 1, Len(name))

\* mime_guess::from_path(path).first(): None when the extension is not known
MimeGuessFirst(path) ==
    LET ext == Extension(path)
    IN  IF ext = S_html THEN [some |-> TRUE, mime |-> S_text_html]
        ELSE IF ext = S_txt THEN [some |-> TRUE, mime |-> S_text_plain]
        ELSE [some |-> FALSE]

\* -------------------------------------------------------- path resolution
\* the default-index rewrite is left out
RewritePath_NoIndex(path, index_file) == path

\* if request.path.ends_with("/") { request.path = path + index_file }
RewritePath(path, index_file) ==
    IF EndsWith(path, Slash) THEN path \o index_file ELSE path

\* the directory is used as configured, trailing "/" included
ResourcePath_NoTrim(directory, rest) == directory \o Slash \o rest

\* format!("{}/{}", directory.trim_end_matches("/"), rest)
ResourcePath(directory, rest) == TrimEndMatches(directory) \o Slash \o rest

\* ------------------------------------------------------------------ inputs
S_www == <<"w", "w", "w">>
S_index_html == <<"i", "n", "d", "e", "x", ".", "h", "t", "m", "l">>
S_404_html == <<"4", "0", "4", ".", "h", "t", "m", "l">>
S_data_zzz == <<"d", "a", "t", "a", ".", "z", "z", "z">>
S_missing_txt == <<"m", "i", "s", "s", "i", "n", "g", ".", "t", "x", "t">>
S_hello == <<"h", "e", "l", "l", "o">>
S_NotFoundDoc ==
    <<"<", "h", "1", ">", "N", "o", "t", " ", "F", "o", "u", "n", "d", "<", "/", "h", "1", ">">>
S_xy == <<"x", "y">>
S_body == <<"b", "o", "d", "y">>
S_docs == <<"d", "o", "c", "s">>
S_dotdot == <<".", ".">>
S_secret_txt == <<"s", "e", "c", "r", "e", "t", ".", "t", "x", "t">>
S_key == <<"k", "e", "y">>

\* Config values the collaborator that loads the configuration may hand over
Directories == {S_www, S_www \o Slash, S_www \o Slash \o Slash}
Configs ==
    [port : {8080}, directory : Directories, index_file : {S_index_html},
     not_found_uri : {S_404_html}]

\* the files that may exist under the document root, with their content
AllFiles ==
    (<<S_www, S_index_html>> :> S_hello)
    @@ (<<S_www, S_404_html>> :> S_NotFoundDoc)
    @@ (<<S_www, S_data_zzz>> :> S_xy)
\* a file beside the document root, not under it
OutsideFiles == <<S_secret_txt>> :> S_key
Disks ==
    {[k \in present |-> AllFiles[k]] @@ OutsideFiles : present \in SUBSET DOMAIN AllFiles}

\* what Utc::now().to_string() may give
Dates ==
    {<<"2", "0", "2", "4", "-", "0", "1", "-", "0", "1", " ",
       "0", "0", ":", "0", "0", ":", "0", "0", " ", "U", "T", "C">>,
     <<"2", "0", "2", "4", "-", "0", "1", "-", "0", "1", " ",
       "0", "0", ":", "0", "0", ":", "0", "1", " ", "U", "T", "C">>}

RequestLine(path) == S_GET \o Space \o path \o Space \o S_HTTP_1_1 \o CRLF
\* what a peer may send in one read
TerminatedChunks ==
    {RequestLine(Slash) \o CRLF,
     RequestLine(Slash \o S_index_html) \o CRLF,
     RequestLine(Slash \o S_missing_txt) \o CRLF,
     RequestLine(Slash \o S_data_zzz) \o CRLF,
     RequestLine(Slash \o S_docs \o Slash) \o CRLF,
     RequestLine(Slash \o S_dotdot \o Slash \o S_secret_txt) \o CRLF,
     S_GET \o Space \o Slash \o CRLFCRLF,
     <<BadByte>> \o CRLFCRLF}
OpenChunks ==
    {RequestLine(Slash),
     CRLF,
     RequestLine(Slash) \o CRLF \o S_body}
Chunks == TerminatedChunks \cup OpenChunks

\* ------------------------------------------------------------------- state
VARIABLES
    config,         \* the Config passed to listen
    disk,           \* the files under the document root
    pc,             \* where listen is: bind, accept, handle, check, returned, panicked
    listener,       \* what TcpListener::bind gave: none, Ok, Err
    listen_result,  \* what listen returned: none, Err
    conn,           \* connections accepted so far
    state,          \* the phase of the accepted connection's handler
    request,        \* handle_connection's request: the text read so far
    request_chunk,  \* the chunk decoded by the last read
    nreads,         \* reads of this connection that returned a chunk
    last_read,      \* <<>> or <<what the last stream.read returned>>
    chunks,         \* the byte chunks the reads of this connection returned, in order
    parsed,         \* <<>> or <<the Request parsed>>
    parses,         \* calls of Request::from_string for this connection
    resource_path,  \* the path handed to fs::read_to_string
    resource_content, \* <<>> or <<its result>>
    response,       \* <<>> or <<the Response built>>
    written,        \* the bytes written to the connection
    writes,         \* calls of write_all for this connection
    handle,         \* what handle_connection returned: none, Ok, Err
    log,            \* the warnings logged
    panic           \* the unwrap that panicked: none, accept, read, mime, write, flush

vars ==
    <<config, disk, pc, listener, listen_result, conn, state, request, request_chunk, nreads, last_read, chunks,
      parsed, parses, resource_path, resource_content, response, written, writes,
      handle, log, panic>>

env == <<config, disk>>
conn_vars ==
    <<state, request, request_chunk, nreads, last_read, chunks, parsed, parses, resource_path,
      resource_content, response, written, writes, handle>>

Init ==
    /\ config \in Configs
    /\ disk \in Disks
    /\ pc = "bind"
    /\ listener = "none"
    /\ listen_result = "none"
    /\ conn = 0
    /\ state = "Closed"
    /\ request = <<>>
    /\ request_chunk = <<>>
    /\ nreads = 0
    /\ last_read = <<>>
    /\ chunks = <<>>
    /\ parsed = <<>>
    /\ parses = 0
    /\ resource_path = <<>>
    /\ resource_content = <<>>
    /\ response = <<>>
    /\ written = <<>>
    /\ writes = 0
    /\ handle = "none"
    /\ log = <<>>
    /\ panic = "none"

\* ------------------------------------------------------------------ listen
\* the bind error is not checked and listen enters its loop
PcAfterBind_Continues(is_err) == "accept"

\* where listen goes after TcpListener::bind: an error makes it return Err
PcAfterBind(is_err) == IF is_err THEN "returned" ELSE "accept"

\* let listener = TcpListener::bind(..); if listener.is_err() { return Err(..) }
Bind ==
    /\ pc = "bind"
    /\ \E is_err \in BOOLEAN :
          /\ listener' = IF is_err THEN "Err" ELSE "Ok"
          /\ pc' = PcAfterBind(is_err)
          /\ listen_result' = IF PcAfterBind(is_err) = "returned" THEN "Err" ELSE "none"
    /\ UNCHANGED <<env, conn, conn_vars, log, panic>>

\* a connection is accepted while the previous one is still being handled
Accept_WhileHandling ==
    /\ pc \in {"accept", "handle"}
    /\ conn < MaxConns
    /\ conn' = conn + 1
    /\ pc' = "handle"
    /\ state' = "Reading"
    /\ request' = <<>>
    /\ request_chunk' = <<>>
    /\ nreads' = 0
    /\ last_read' = <<>>
    /\ chunks' = <<>>
    /\ parsed' = <<>>
    /\ parses' = 0
    /\ resource_path' = <<>>
    /\ resource_content' = <<>>
    /\ response' = <<>>
    /\ written' = <<>>
    /\ writes' = 0
    /\ handle' = "none"
    /\ UNCHANGED <<env, listener, listen_result, log, panic>>

\* let (stream, _) = listener.accept().unwrap(), then handle_connection starts
\* with an empty request
Accept ==
    /\ pc = "accept"
    /\ conn < MaxConns
    /\ conn' = conn + 1
    /\ pc' = "handle"
    /\ state' = "Reading"
    /\ request' = <<>>
    /\ request_chunk' = <<>>
    /\ nreads' = 0
    /\ last_read' = <<>>
    /\ chunks' = <<>>
    /\ parsed' = <<>>
    /\ parses' = 0
    /\ resource_path' = <<>>
    /\ resource_content' = <<>>
    /\ response' = <<>>
    /\ written' = <<>>
    /\ writes' = 0
    /\ handle' = "none"
    /\ UNCHANGED <<env, listener, listen_result, log, panic>>

\* listener.accept() fails: the unwrap panics
AcceptError ==
    /\ pc = "accept"
    /\ pc' = "panicked"
    /\ panic' = "accept"
    /\ UNCHANGED <<env, listener, listen_result, conn, conn_vars, log>>

\* ------------------------------------------------------- handle_connection
\* a panic inside the handler unwinds through listen: the stream is dropped
\* and nothing is returned or logged
HandlerPanics(cause) ==
    /\ pc' = "panicked"
    /\ panic' = cause
    /\ state' = "Closed"

\* the terminator test is left out: only a read of zero bytes ends the loop
ReadingDone_ZeroOnly(bytes_read, chunk) == bytes_read = 0

\* the loop ends on any chunk that ends a line
ReadingDone_AnyCRLF(bytes_read, chunk) == bytes_read = 0 \/ EndsWith(chunk, CRLF)

\* the terminator is looked for anywhere in the chunk
ReadingDone_Contains(bytes_read, chunk) == bytes_read = 0 \/ Find(chunk, CRLFCRLF, 1) # 0

\* the read loop breaks on zero bytes or on a chunk ending with "\r\n\r\n"
ReadingDone(bytes_read, chunk) == bytes_read = 0 \/ EndsWith(chunk, CRLFCRLF)

\* the terminator is looked for at the end of the accumulated request
ReadChunk_ChecksRequest ==
    /\ pc = "handle"
    /\ state = "Reading"
    /\ \E bytes \in Chunks :
          LET bytes_read == Len(bytes)
              chunk == Utf8Lossy(SubSeq(bytes, 1, bytes_read))
          IN  /\ bytes_read <= BufSize
              /\ ReadingDone(bytes_read, request \o chunk) \/ nreads < MaxReads
              /\ request_chunk' = chunk
              /\ request' = request \o chunk
              /\ nreads' = nreads + 1
              /\ last_read' = <<bytes_read>>
              /\ chunks' = Append(chunks, bytes)
              /\ state' = IF ReadingDone(bytes_read, request \o chunk)
                          THEN "Parsing" ELSE "Reading"
    /\ UNCHANGED <<env, pc, listener, listen_result, conn, parsed, parses, resource_path,
                   resource_content, response, written, writes, handle, log, panic>>

\* stream.read(&mut request_buf) returns a chunk of bytes_read > 0 bytes
ReadChunk ==
    /\ pc = "handle"
    /\ state = "Reading"
    /\ \E bytes \in Chunks :
          LET bytes_read == Len(bytes)
              chunk == Utf8Lossy(SubSeq(bytes, 1, bytes_read))
          IN  /\ bytes_read <= BufSize
              /\ ReadingDone(bytes_read, chunk) \/ nreads < MaxReads
              /\ request_chunk' = chunk
              /\ request' = request \o chunk
              /\ nreads' = nreads + 1
              /\ last_read' = <<bytes_read>>
              /\ chunks' = Append(chunks, bytes)
              /\ state' = IF ReadingDone(bytes_read, chunk) THEN "Parsing" ELSE "Reading"
    /\ UNCHANGED <<env, pc, listener, listen_result, conn, parsed, parses, resource_path,
                   resource_content, response, written, writes, handle, log, panic>>

\* a read of zero bytes is taken for a broken connection: Err without parsing
ReadZero_Aborts ==
    /\ pc = "handle"
    /\ state = "Reading"
    /\ last_read' = <<0>>
    /\ state' = "Closed"
    /\ handle' = "Err"
    /\ pc' = "check"
    /\ UNCHANGED <<env, listener, listen_result, conn, request, request_chunk, nreads,
                   chunks, parsed, parses, resource_path, resource_content, response,
                   written, writes, log, panic>>

\* stream.read returns 0: the peer closed its side
ReadZero ==
    /\ pc = "handle"
    /\ state = "Reading"
    /\ last_read' = <<0>>
    /\ state' = IF ReadingDone(0, <<>>) THEN "Parsing" ELSE "Reading"
    /\ UNCHANGED <<env, pc, listener, listen_result, conn, request, request_chunk, nreads,
                   chunks, parsed, parses, resource_path, resource_content, response, written, writes,
                   handle, log, panic>>

\* stream.read fails: the unwrap panics
ReadError ==
    /\ pc = "handle"
    /\ state = "Reading"
    /\ HandlerPanics("read")
    /\ UNCHANGED <<env, listener, listen_result, conn, request, request_chunk, nreads, last_read, chunks, parsed,
                   parses, resource_path, resource_content, response, written, writes,
                   handle, log>>

\* the handler answers a request it could not parse before returning Err
RejectRequest_Responds ==
    /\ log' = Append(log, "invalid_request")
    /\ handle' = "Err"
    /\ state' = "Closed"
    /\ pc' = "check"
    /\ written' = S_HTTP_1_1 \o Space \o UsizeToString(400) \o CRLFCRLF
    /\ writes' = writes + 1
    /\ UNCHANGED parsed

\* if request.is_err() { warn!(..); return Err(..) }: nothing is written
RejectRequest ==
    /\ log' = Append(log, "invalid_request")
    /\ handle' = "Err"
    /\ state' = "Closed"
    /\ pc' = "check"
    /\ UNCHANGED <<parsed, written, writes>>

\* let request = Request::from_string(request); .. let mut request = request.unwrap()
ParseRequest ==
    /\ pc = "handle"
    /\ state = "Parsing"
    /\ parses' = parses + 1
    /\ LET r == RequestFromString(request)
       IN  IF ~r.ok
           THEN RejectRequest
           ELSE /\ parsed' = <<r.request>>
                /\ state' = "Resolving"
                /\ UNCHANGED <<log, handle, pc, written, writes>>
    /\ UNCHANGED <<env, listener, listen_result, conn, request, request_chunk, nreads, last_read, chunks,
                   resource_path, resource_content, response, panic>>

\* the default-index rewrite of request.path, then the resource path
ResolvePath ==
    /\ pc = "handle"
    /\ state = "Resolving"
    /\ LET path == RewritePath(parsed[1].path, config.index_file)
       IN  /\ parsed' = <<[parsed[1] EXCEPT !.path = path]>>
           /\ resource_path' = ResourcePath(config.directory, path)
    /\ state' = "Responding"
    /\ UNCHANGED <<env, pc, listener, listen_result, conn, request, request_chunk, nreads, last_read, chunks, parses,
                   resource_content, response, written, writes, handle, log, panic>>

\* the not-found branch gets the Date header of the other branch
NotFoundResponse_WithDate(cfg, dsk) ==
    LET content == UnwrapOr404(FsReadToString(dsk, ResourcePath(cfg.directory, cfg.not_found_uri)))
        h1 == HeadersInsert(HeadersNew, S_ContentType, S_text_html)
        h2 == HeadersInsert(h1, S_ContentLenght, UsizeToString(Len(content)))
        h3 == HeadersInsert(h2, S_Server, S_Quickserving)
        h4 == HeadersInsert(h3, S_Date, CHOOSE now \in Dates : TRUE)
    IN  ResponseNew(StatusNotFound, S_ResourceNotFound, VersionNew(S_HTTP, S_1_1), h4, content)

\* the branch taken when the resource could not be read
NotFoundResponse(cfg, dsk) ==
    LET content == UnwrapOr404(FsReadToString(dsk, ResourcePath(cfg.directory, cfg.not_found_uri)))
        resource_len == Len(content)
        h1 == HeadersInsert(HeadersNew, S_ContentType, S_text_html)
        h2 == HeadersInsert(h1, S_ContentLenght, UsizeToString(resource_len))
        h3 == HeadersInsert(h2, S_Server, S_Quickserving)
    IN  ResponseNew(StatusNotFound, S_ResourceNotFound, VersionNew(S_HTTP, S_1_1), h3, content)

\* the Content-Type is fixed instead of guessed from the path
OkResponse_FixedType(content, mime, now) ==
    LET resource_len == Len(content)
        h1 == HeadersInsert(HeadersNew, S_ContentType, S_octet_stream)
        h2 == HeadersInsert(h1, S_ContentLenght, UsizeToString(resource_len))
        h3 == HeadersInsert(h2, S_Server, S_Quickserving)
        h4 == HeadersInsert(h3, S_Date, now)
    IN  ResponseNew(StatusOk, S_OK, VersionNew(S_HTTP, S_1_1), h4, content)

\* the branch taken when the resource was read, its mime type being known
OkResponse(content, mime, now) ==
    LET resource_len == Len(content)
        h1 == HeadersInsert(HeadersNew, S_ContentType, mime)
        h2 == HeadersInsert(h1, S_ContentLenght, UsizeToString(resource_len))
        h3 == HeadersInsert(h2, S_Server, S_Quickserving)
        h4 == HeadersInsert(h3, S_Date, now)
    IN  ResponseNew(StatusOk, S_OK, VersionNew(S_HTTP, S_1_1), h4, content)

\* every request is answered from the not-found branch
TakesNotFoundBranch_Always(read) == TRUE

\* which branch builds the response
TakesNotFoundBranch(read) == ~read.ok

\* let resource_content = fs::read_to_string(resource_path);
\* let response = if resource_content.is_err() { .. } else { .. };
BuildResponse ==
    /\ pc = "handle"
    /\ state = "Responding"
    /\ response = <<>>
    /\ LET read == FsReadToString(disk, resource_path)
           guess == MimeGuessFirst(parsed[1].path)
       IN  /\ resource_content' = <<read>>
           /\ IF TakesNotFoundBranch(read)
              THEN /\ response' = <<NotFoundResponse(config, disk)>>
                   /\ UNCHANGED <<pc, panic, state>>
              ELSE IF guess.some
              THEN /\ \E now \in Dates :
                         response' = <<OkResponse(read.content, guess.mime, now)>>
                   /\ UNCHANGED <<pc, panic, state>>
              ELSE \* mime_guess::from_path(..).first().unwrap() on None
                   /\ HandlerPanics("mime")
                   /\ UNCHANGED response
    /\ UNCHANGED <<env, listener, listen_result, conn, request, request_chunk, nreads, last_read, chunks, parsed,
                   parses, resource_path, written, writes, handle, log>>

\* the handler goes back to reading after a response instead of returning
WriteResponse_KeepAlive ==
    /\ pc = "handle"
    /\ state = "Responding"
    /\ response # <<>>
    /\ writes' = writes + 1
    /\ written' = written \o ResponseToString(response[1])
    /\ state' = "Reading"
    /\ response' = <<>>
    /\ UNCHANGED <<env, pc, listener, listen_result, conn, request, request_chunk, nreads, last_read, chunks,
                   parsed, parses, resource_path, resource_content, handle, log, panic>>

\* stream.write_all(response_string.as_bytes()).unwrap();
\* stream.flush().unwrap(); return Ok(())
WriteResponse ==
    /\ pc = "handle"
    /\ state = "Responding"
    /\ response # <<>>
    /\ writes' = writes + 1
    /\ LET response_string == ResponseToString(response[1])
       IN  \E io \in {"ok", "write", "flush"} :
              IF io = "ok"
              THEN /\ written' = response_string
                   /\ handle' = "Ok"
                   /\ state' = "Closed"
                   /\ pc' = "check"
                   /\ UNCHANGED panic
              ELSE /\ written' = IF io = "flush" THEN response_string
                                 ELSE SubSeq(response_string, 1, Len(response_string) \div 2)
                   /\ HandlerPanics(io)
                   /\ UNCHANGED handle
    /\ UNCHANGED <<env, listener, listen_result, conn, request, request_chunk, nreads, last_read, chunks, parsed,
                   parses, resource_path, resource_content, response, log>>

\* if handle.is_err() { warn!(..); continue; } and the loop goes round
Check ==
    /\ pc = "check"
    /\ log' = IF handle = "Err" THEN Append(log, "connection_error") ELSE log
    /\ pc' = "accept"
    /\ UNCHANGED <<env, listener, listen_result, conn, conn_vars, panic>>

Next ==
    \/ Bind
    \/ Accept
    \/ AcceptError
    \/ ReadChunk
    \/ ReadZero
    \/ ReadError
    \/ ParseRequest
    \/ ResolvePath
    \/ BuildResponse
    \/ WriteResponse
    \/ Check

Spec == Init /\ [][Next]_vars

TypeOK ==
    /\ listener \in {"none", "Ok", "Err"}
    /\ listen_result \in {"none", "Err"}
    /\ pc \in {"bind", "accept", "handle", "check", "returned", "panicked"}
    /\ state \in {"Reading", "Parsing", "Resolving", "Responding", "Closed"}
    /\ handle \in {"none", "Ok", "Err"}
    /\ panic \in {"none", "accept", "read", "mime", "write", "flush"}
    /\ conn \in 0..MaxConns

\* ================================================================== claims
\* the values of the headers named name
HeaderValues(headers, name) ==
    {headers[i][2] : i \in {j \in 1..Len(headers) : headers[j][1] = name}}

\* the number a decimal text denotes
RECURSIVE ParseUsize(_)
ParseUsize(text) ==
    IF text = <<>> THEN 0
    ELSE 10 * ParseUsize(SubSeq(text, 1, Len(text) - 1))
         + (CHOOSE d \in 0..9 : Digit(d) = text[Len(text)])

\* the path as the peer sent it, before the default-index rewrite
SentPath == RequestFromString(request).request.path

ParseFailed == parses = 1 /\ parsed = <<>>
ResourceRead == resource_content # <<>>
ResourceReadable == ResourceRead /\ resource_content[1].ok
ResourceMissing == ResourceRead /\ ~resource_content[1].ok
LastLogged(event) == log # <<>> /\ log[Len(log)] = event

TwoTokenRequest == S_GET \o Space \o Slash \o CRLFCRLF
NotFoundDocKey == <<S_www, S_404_html>>
IndexKey == <<S_www, S_index_html>>
StatusLine200 == S_HTTP_1_1 \o Space \o <<"2", "0", "0">> \o Space \o S_OK \o CRLF
StatusLine404 == S_HTTP_1_1 \o Space \o S_404 \o Space \o S_ResourceNotFound \o CRLF

\* C1: an I/O error of the connection's socket read or write never ends the
\* process: the handler returns an error that the listener loop logs, and
\* the server goes on accepting.
C1_IoErrorIsCaught == ~(pc = "panicked" /\ panic \in {"read", "write", "flush"})

\* C2: when the accumulated request text does not parse (a request line of
\* two tokens, say) the handler has written no byte and built no response,
\* it has returned Err with the connection closed, and the listener logs a
\* warning and is back at accept.
C2_ParseFailureWritesNothing ==
    /\ (parses = 1 /\ request = TwoTokenRequest) => ParseFailed
    /\ ParseFailed =>
          /\ ~RequestFromString(request).ok
          /\ written = <<>> /\ writes = 0 /\ response = <<>>
          /\ handle = "Err"
          /\ state = "Closed"
          /\ \E i \in 1..Len(log) : log[i] = "invalid_request"
          /\ \/ pc = "check"
             \/ pc = "accept" /\ LastLogged("connection_error")
             \/ pc = "panicked" /\ panic = "accept" /\ LastLogged("connection_error")

C2_Witness ==
    /\ request = TwoTokenRequest
    /\ ParseFailed
    /\ written = <<>>
    /\ pc = "accept" /\ conn < MaxConns
    /\ log = <<"invalid_request", "connection_error">>

\* C3: a readable resource always gets a 200 response with a Content-Type
\* header, application/octet-stream when the path's extension has no known
\* MIME type, and the process does not end.
C3_ReadableResourceGets200 ==
    ResourceReadable =>
       /\ panic # "mime"
       /\ response # <<>>
       /\ response[1].status = StatusOk
       /\ HeaderValues(response[1].headers, S_ContentType) =
             {IF MimeGuessFirst(parsed[1].path).some
              THEN MimeGuessFirst(parsed[1].path).mime ELSE S_octet_stream}

\* C4: a resource that cannot be read is never a connection failure: the
\* response is a 404 whose body is the not-found document, or "404" (3
\* bytes) when that document cannot be read either; the handler never
\* returns Err, and once the socket write went through the 404 response is
\* on the connection and the handler has returned Ok.
C4_MissingResourceGets404 ==
    ResourceMissing =>
       /\ response # <<>>
       /\ response[1].status = StatusNotFound
       /\ response[1].body =
             IF NotFoundDocKey \in DOMAIN disk THEN disk[NotFoundDocKey] ELSE S_404
       /\ NotFoundDocKey \notin DOMAIN disk => Len(response[1].body) = 3
       /\ handle # "Err"
       /\ panic # "mime"
       /\ (state = "Closed" /\ panic = "none") =>
             /\ handle = "Ok"
             /\ StartsWith(written, StatusLine404)
             /\ EndsWith(written, CRLFCRLF \o response[1].body)

C4_Witness ==
    /\ ResourceMissing
    /\ NotFoundDocKey \notin DOMAIN disk
    /\ handle = "Ok"
    /\ EndsWith(written, CRLFCRLF \o S_404)

\* C5: every response built, 200 or 404, has a header named exactly
\* "Content-Length" whose value is the byte length of the body.
C5_ContentLengthHeader ==
    response # <<>> =>
       /\ HeaderValues(response[1].headers, S_ContentLength) # {}
       /\ \A v \in HeaderValues(response[1].headers, S_ContentLength) :
             ParseUsize(v) = Len(response[1].body)

\* C6: when binding the listening socket fails, listen has returned Err:
\* no connection is ever accepted or handled.
C6_BindFailureReturns ==
    listener = "Err" =>
       /\ pc = "returned"
       /\ listen_result = "Err"
       /\ conn = 0
       /\ state = "Closed" /\ parses = 0 /\ writes = 0 /\ written = <<>>

C6_Witness == listener = "Err" /\ pc = "returned" /\ listen_result = "Err"

\* C7: a sent path P ending in "/" resolves to the resource path that P
\* followed by the index file name resolves to; "/" with index.html gives
\* the resource path of "/index.html".
C7_IndexRuleIdempotent ==
    resource_path # <<>> =>
       LET sent == SentPath
       IN  EndsWith(sent, Slash) =>
              /\ resource_path =
                    ResourcePath(config.directory,
                                 RewritePath(sent \o config.index_file, config.index_file))
              /\ resource_path = TrimEndMatches(config.directory) \o Slash \o sent
                                 \o config.index_file

C7_Witness ==
    /\ resource_path = S_www \o Slash \o Slash \o S_index_html
    /\ SentPath = Slash
    /\ config.directory = S_www \o Slash

\* C8: the response is 200 "OK" exactly when the read of the resolved
\* resource path succeeded and 404 exactly when it failed; nothing with
\* another status line is ever written, and nothing at all without a
\* response.
C8_StatusFollowsRead ==
    /\ response # <<>> =>
          /\ ResourceRead
          /\ ResourceReadable <=>
                (response[1].status = StatusOk /\ response[1].reason = S_OK)
          /\ ResourceMissing <=> response[1].status = StatusNotFound
          /\ response[1].status \in {StatusOk, StatusNotFound}
    /\ written # <<>> =>
          /\ response # <<>>
          /\ ResourceReadable <=> StartsWith(written, StatusLine200)
          /\ ResourceMissing <=> StartsWith(written, StatusLine404)

C8_Witness ==
    /\ handle = "Ok"
    /\ ResourceReadable
    /\ StartsWith(written, StatusLine200)

\* C9: the Content-Type of a 200 response is guessed from the path after
\* the default-index rewrite: "/" with index.html readable gives a 200 with
\* Content-Type text/html and the file's content as body.
C9_ContentTypeAfterRewrite ==
    /\ (ResourceReadable /\ SentPath = Slash /\ config.index_file = S_index_html) =>
          /\ response # <<>>
          /\ response[1].status = StatusOk
          /\ HeaderValues(response[1].headers, S_ContentType) = {S_text_html}
          /\ response[1].body = disk[IndexKey]
    /\ (response # <<>> /\ response[1].status = StatusOk) =>
          HeaderValues(response[1].headers, S_ContentType) =
             {MimeGuessFirst(RewritePath(SentPath, config.index_file)).mime}

C9_Witness ==
    /\ handle = "Ok"
    /\ SentPath = Slash
    /\ StartsWith(written, StatusLine200)
    /\ HeaderValues(response[1].headers, S_ContentType) = {S_text_html}
    /\ response[1].body = S_hello

\* C10: a connection goes Reading, Parsing, Resolving, Responding, Closed in
\* that order, one state at a time and never back; a failure goes straight
\* to Closed; so per accepted connection at most one request is parsed, at
\* most one response is written, and no byte is written before the request
\* was parsed and the resource read.
PhaseRank(phase) ==
    CASE phase = "Reading" -> 1
      [] phase = "Parsing" -> 2
      [] phase = "Resolving" -> 3
      [] phase = "Responding" -> 4
      [] phase = "Closed" -> 5

C10_Counts ==
    /\ parses <= 1
    /\ writes <= 1
    /\ state \in {"Reading", "Parsing"} => (parses = 0 /\ writes = 0 /\ written = <<>>)
    /\ state \in {"Resolving", "Responding"} => (parses = 1 /\ parsed # <<>> /\ writes = 0)
    /\ written # <<>> => (parsed # <<>> /\ ResourceRead /\ writes = 1)
    /\ writes = 1 => state = "Closed"

C10_Step ==
    /\ conn' = conn =>
          \/ state' = state
          \/ PhaseRank(state') = PhaseRank(state) + 1
          \/ state' = "Closed" /\ (handle' = "Err" \/ panic' # "none")
    /\ conn' # conn => (conn' = conn + 1 /\ state = "Closed" /\ state' = "Reading")
    /\ ((handle' = "Err" /\ handle # "Err") \/ (panic' # panic /\ pc = "handle")) =>
          state' = "Closed"

C10_ConnectionStateMachine == []C10_Counts /\ [][C10_Step]_vars

C10_Witness ==
    /\ state = "Closed"
    /\ handle = "Ok"
    /\ parses = 1
    /\ writes = 1
    /\ written = ResponseToString(response[1])

\* the text the chunks cs give, each decoded on its own, in order
RECURSIVE ConcatDecoded(_)
ConcatDecoded(cs) ==
    IF cs = <<>> THEN <<>> ELSE Utf8Lossy(cs[1]) \o ConcatDecoded(Tail(cs))

LastChunkTerminated(cs) == cs # <<>> /\ EndsWith(cs[Len(cs)], CRLFCRLF)
InReading == pc = "handle" /\ state = "Reading"

\* C11: Reading ends exactly when a read returns zero bytes or the chunk
\* just read ends with "\r\n\r\n"; any other chunk leaves the handler
\* reading; the text handed to the parser is all chunks read, in order.
C11_Text ==
    /\ request = ConcatDecoded(chunks)
    /\ InReading =>
          /\ last_read # <<0>>
          /\ \A i \in 1..Len(chunks) : ~EndsWith(chunks[i], CRLFCRLF)
    /\ parses = 1 => (last_read = <<0>> \/ LastChunkTerminated(chunks))

C11_Step ==
    /\ InReading =>
          \/ panic' = "read" /\ state' = "Closed"
          \/ /\ Len(chunks') = Len(chunks) + 1
             /\ SubSeq(chunks', 1, Len(chunks)) = chunks
             /\ last_read' = <<Len(chunks'[Len(chunks')])>>
             /\ last_read' # <<0>>
             /\ state' = IF LastChunkTerminated(chunks') THEN "Parsing" ELSE "Reading"
          \/ /\ chunks' = chunks
             /\ last_read' = <<0>>
             /\ state' = "Parsing"
    /\ (pc = "handle" /\ state # "Reading") => (request' = request /\ chunks' = chunks)

C11_ReadingEnds == []C11_Text /\ [][C11_Step]_vars

C11_Witness ==
    /\ Len(chunks) = 3
    /\ parses = 1
    /\ parsed # <<>>
    /\ request = chunks[1] \o chunks[2] \o chunks[3]

\* C12: while no read returns zero bytes, a terminated chunk or an error,
\* the handler stays in Reading: nothing is written or returned and no
\* other connection is accepted; nothing else (no timeout) ends the wait.
C12_Waiting ==
    /\ state = "Reading" => pc = "handle"
    /\ InReading =>
          (written = <<>> /\ writes = 0 /\ response = <<>> /\ handle = "none" /\ parses = 0)

C12_Step ==
    (/\ InReading
     /\ ~(chunks' # chunks /\ LastChunkTerminated(chunks'))
     /\ last_read' # <<0>>
     /\ panic' = panic)
    => /\ state' = "Reading"
       /\ pc' = "handle"
       /\ conn' = conn
       /\ written' = <<>>
       /\ handle' = "none"
       /\ log' = log

C12_HangsInReading == []C12_Waiting /\ [][C12_Step]_vars

C12_Witness ==
    /\ InReading
    /\ nreads = MaxReads
    /\ conn < MaxConns
    /\ written = <<>>

\* C13: one connection at a time: a connection is accepted only when listen
\* is at accept, that is before the first or after the handler of the
\* previous one has returned; while a handler runs no accept happens.
C13_OneHandler ==
    /\ pc = "handle" => (handle = "none" /\ conn >= 1)
    /\ state # "Closed" => pc = "handle"

C13_Step ==
    conn' # conn =>
       /\ conn' = conn + 1
       /\ pc = "accept"
       /\ pc' = "handle"
       /\ state = "Closed"
       /\ conn > 0 => handle \in {"Ok", "Err"}

C13_Sequential == []C13_OneHandler /\ [][C13_Step]_vars

C13_Witness ==
    /\ conn = 2
    /\ state = "Responding"
    /\ log = <<"invalid_request", "connection_error">>

\* C14: the path handed to fs::read_to_string is the configured directory
\* without its trailing "/" characters, then "/", then the request path as
\* sent (with the index file appended when it ends in "/"); ".." segments
\* are in it unchanged and the read follows them.
C14_Read ==
    /\ ResourceRead => resource_content[1] = FsReadToString(disk, resource_path)
    /\ resource_path # <<>> =>
          /\ EndsWith(resource_path, Slash \o parsed[1].path)
          /\ Find(parsed[1].path, S_dotdot, 1) # 0 =>
                Find(resource_path, Slash \o S_dotdot \o Slash, 1) # 0

C14_Step ==
    (resource_path' # resource_path /\ resource_path' # <<>>) =>
       LET sent == SentPath
           path == IF sent[Len(sent)] = "/" THEN sent \o config.index_file ELSE sent
           dir  == config.directory
       IN  /\ request' = request
           /\ parsed'[1].path = path
           /\ \E k \in 0..Len(dir) :
                 /\ k > 0 => dir[k] # "/"
                 /\ \A i \in (k + 1)..Len(dir) : dir[i] = "/"
                 /\ resource_path' = SubSeq(dir, 1, k) \o Slash \o path

C14_ResourcePathVerbatim == []C14_Read /\ [][C14_Step]_vars

C14_Witness ==
    /\ config.directory = S_www \o Slash \o Slash
    /\ resource_path = S_www \o Slash \o Slash \o S_dotdot \o Slash \o S_secret_txt
    /\ ResourceReadable
    /\ response # <<>>
    /\ response[1].body = S_key

\* C15: a 404 response has exactly Content-Type: text/html, the length
\* header and Server, in that order, and no Date; a 200 response has
\* Content-Type, the length header, Server and Date, in that order; the
\* bytes written carry exactly those header lines, in that order, between
\* the status line and the blank line.
HeaderNames(headers) == [i \in 1..Len(headers) |-> headers[i][1]]
HeaderAt(text, name) == Find(text, CRLF \o name \o ColonSpace, 1)
HeaderLine(header) == header[1] \o ColonSpace \o header[2] \o CRLF

C15_HeaderOrder ==
    response # <<>> =>
       LET r == response[1]
           h == r.headers
       IN  /\ r.status = StatusNotFound =>
                 /\ HeaderNames(h) = <<S_ContentType, S_ContentLenght, S_Server>>
                 /\ h[1][2] = S_text_html
                 /\ h[3][2] = S_Quickserving
                 /\ HeaderValues(h, S_Date) = {}
           /\ r.status = StatusOk =>
                 /\ HeaderNames(h) = <<S_ContentType, S_ContentLenght, S_Server, S_Date>>
                 /\ h[3][2] = S_Quickserving
                 /\ h[4][2] \in Dates
           /\ handle = "Ok" =>
                 StartsWith(written,
                            (IF r.status = StatusOk THEN StatusLine200 ELSE StatusLine404)
                            \o HeaderLine(h[1]) \o HeaderLine(h[2]) \o HeaderLine(h[3])
                            \o (IF r.status = StatusOk THEN HeaderLine(h[4]) ELSE <<>>)
                            \o CRLF)

C15_Witness ==
    /\ handle = "Ok"
    /\ response[1].status = StatusNotFound
    /\ response[1].body = S_NotFoundDoc
    /\ HeaderAt(written, S_Date) = 0
    /\ HeaderAt(written, S_Server) > 0

\* C16: when the terminator arrives split over two reads, so that the text
\* read ends with "\r\n\r\n" but the last chunk does not, the handler is
\* still in Reading with nothing parsed or written, and it leaves Reading
\* only on a chunk ending with the whole terminator, a read of zero bytes
\* or a read error.
SplitTerminator ==
    /\ pc = "handle"
    /\ chunks # <<>>
    /\ last_read # <<0>>
    /\ ~LastChunkTerminated(chunks)
    /\ EndsWith(request, CRLFCRLF)

LeavesReadingByRead ==
    state' # "Reading" =>
       \/ chunks' # chunks /\ LastChunkTerminated(chunks')
       \/ last_read' = <<0>>
       \/ panic' = "read"

StillReading ==
    state = "Reading" /\ parses = 0 /\ response = <<>> /\ writes = 0 /\ written = <<>>

C16_SplitTerminator ==
    [](SplitTerminator => StillReading) /\ [][SplitTerminator => LeavesReadingByRead]_vars

C16_Witness ==
    /\ InReading
    /\ chunks = <<RequestLine(Slash), CRLF>>
    /\ EndsWith(request, CRLFCRLF)
    /\ written = <<>>

\* C17: after a chunk that holds the terminator followed by more bytes the
\* handler is still in Reading with nothing parsed or written, although the
\* text read holds a whole header block; it leaves Reading only on a chunk
\* ending with the terminator, a read of zero bytes or a read error.
TerminatorInsideChunk ==
    /\ pc = "handle"
    /\ chunks # <<>>
    /\ last_read # <<0>>
    /\ ~LastChunkTerminated(chunks)
    /\ Find(chunks[Len(chunks)], CRLFCRLF, 1) # 0

C17_TerminatorInsideChunk ==
    /\ [](TerminatorInsideChunk => StillReading)
    /\ [][TerminatorInsideChunk => LeavesReadingByRead]_vars

C17_Witness ==
    /\ InReading
    /\ chunks = <<RequestLine(Slash) \o CRLF \o S_body>>
    /\ Find(request, CRLFCRLF, 1) # 0
    /\ RequestFromString(request).ok
    /\ written = <<>>

\* C18: after a read of zero bytes with no terminated chunk before it the
\* handler parses what was read: when that parses and the handler returns,
\* it returns Ok with the 200 or 404 response written that the read of the
\* resource calls for; when it does not parse (nothing read included) the
\* handler returns Err with nothing written.
C18_PeerClosedEarly ==
    last_read = <<0>> =>
       /\ state # "Reading"
       /\ \A i \in 1..Len(chunks) : ~EndsWith(chunks[i], CRLFCRLF)
       /\ parses = 1 => (parsed # <<>> <=> RequestFromString(request).ok)
       /\ (request = <<>> /\ parses = 1) => (handle = "Err" /\ written = <<>>)
       /\ pc \in {"check", "accept"} =>
             IF RequestFromString(request).ok
             THEN /\ handle = "Ok"
                  /\ writes = 1
                  /\ written = ResponseToString(response[1])
                  /\ StartsWith(written,
                                IF ResourceReadable THEN StatusLine200 ELSE StatusLine404)
             ELSE /\ handle = "Err"
                  /\ writes = 0
                  /\ written = <<>>

C18_Witness ==
    /\ last_read = <<0>>
    /\ chunks = <<RequestLine(Slash)>>
    /\ handle = "Ok"
    /\ StartsWith(written, StatusLine200)

====
